---- MODULE Spec2Model ----
(***************************************************************************)
(* The TensorBox dispatch facade of PennyLane (pennylane.tensorbox):       *)
(*   - the backend classifier  fn._get_multi_tensorbox                     *)
(*   - the TensorFlow adapter  TensorFlowBox (tensorbox/tf_box.py)         *)
(*   - the gradient-tape state that TensorFlowBox.requires_grad queries    *)
(* Three specifications share the module: SpecClassify, SpecGrad, SpecOps. *)
(***************************************************************************)
EXTENDS Integers, Sequences, FiniteSets, TLC

VARIABLES
    \* --- classifier (SpecClassify) ---
    cValues,      \* the sequence handed to _get_multi_tensorbox (kinds of values)
    cPc,          \* "idle" | "probing" | "done"
    cInterfaces,  \* interfaces probed so far, in order: [get_interface(v) for v in values]
    cOutcome,     \* result of the call: NoOutcome, an error, or a dispatch handle
    cWarnings,    \* number of UserWarnings emitted by the running call
    cPrev,        \* the previous completed call: NoCall or what it was given and gave
    \* --- gradient recording (SpecGrad) ---
    tapes,        \* the stack of active GradientTape scopes, innermost last
    res,          \* the requires_grad query just made: NoQuery or its value and answer
    exited,       \* values that were watched by a scope that has exited
    \* --- tensor operations (SpecOps) ---
    oVal,         \* the tensor-like value the caller holds
    oLast,        \* the operation just applied: NoOp or its arguments and result
    oChain        \* what the held value started as and how many operations it went through

cvars == <<cValues, cPc, cInterfaces, cOutcome, cWarnings, cPrev>>

gvars == <<tapes, res, exited>>

ovars == <<oVal, oLast, oChain>>

vars == <<cValues, cPc, cInterfaces, cOutcome, cWarnings, cPrev, tapes, res, exited,
         oVal, oLast, oChain>>

-----------------------------------------------------------------------------
(* Tensor-like values, by the type the classifier probes.                  *)

\* Longest sequence of values handed to the classifier.
MaxLen == 3

\* The types of tensor-like value (test_data): tuple/list, onp.array,
\* pennylane.numpy array, torch.tensor, tf.Variable, tf.constant.
Kinds == {"sequence", "numpy", "autograd", "torch", "tfVariable", "tfConstant"}

TFKinds == {"tfVariable", "tfConstant"}

\* TensorFlowBox.interface: every TensorFlowBox reports "tf".
TensorFlowBox_interface_torch(self) == "torch"

TensorFlowBox_interface_variableOnly(self) ==
    IF self = "tfVariable" THEN "tf" ELSE "numpy"

TensorFlowBox_interface(self) == "tf"

\* fn.get_interface(v) = TensorBox(v).interface
get_interface(kind) ==
    CASE kind \in {"sequence", "numpy"} -> "numpy"
      [] kind = "autograd"              -> "autograd"
      [] kind = "torch"                 -> "torch"
      [] kind \in TFKinds               -> TensorFlowBox_interface(kind)

Interfaces == {"numpy", "autograd", "torch", "tf"}

SeqToSet(s) == {s[i] : i \in 1..Len(s)}

\* Position of the first element of s equal to x (list.index).
IndexOf(s, x) == CHOOSE i \in 1..Len(s) : s[i] = x /\ \A j \in 1..(i - 1) : s[j] # x

ValueSeqs == UNION {[1..n -> Kinds] : n \in 1..MaxLen}

NoOutcome == [status |-> "none"]
NoCall == [status |-> "nocall"]

MixedTypesError == [status |-> "error", type |-> "ValueError", message |-> "mixed types"]

\* The dispatch handle: TensorBox(value), for the first value of the
\* authoritative interface; its interface is the handle's own.
Handle(values, interfaces, name) ==
    [status    |-> "ok",
     interface |-> get_interface(values[IndexOf(interfaces, name)]),
     boxed     |-> IndexOf(interfaces, name)]

\* What the caller sees of an outcome: the error, or the handle's interface.
Visible(outcome) ==
    IF outcome.status = "ok"
    THEN [status |-> "ok", interface |-> outcome.interface]
    ELSE outcome

\* Is the combination a classification conflict (backend A and backend B)?
IsConflict(ids) == Cardinality(ids \ {"numpy", "autograd"}) > 1

\* Does the combination mix the autodiff wrapper with backend A or B?
WarnsPerValue(interfaces) ==
    IF Cardinality(SeqToSet(interfaces) \ {"numpy"}) > 1
    THEN Cardinality({i \in 1..Len(interfaces) : interfaces[i] = "autograd"})
    ELSE 0

Warns(interfaces) ==
    IF Cardinality(SeqToSet(interfaces) \ {"numpy"}) > 1 THEN 1 ELSE 0

\* Precedence of the authoritative backend: tf, torch, autograd, numpy.
Authoritative(values, interfaces) ==
    LET ids == SeqToSet(interfaces)
    IN  IF "tf" \in ids THEN Handle(values, interfaces, "tf")
        ELSE IF "torch" \in ids THEN Handle(values, interfaces, "torch")
        ELSE IF "autograd" \in ids THEN Handle(values, interfaces, "autograd")
        ELSE Handle(values, interfaces, "numpy")

-----------------------------------------------------------------------------
(* fn._get_multi_tensorbox(values), one probe per step.                    *)

NoQuery == [status |-> "none"]

NoOp == [op |-> "none"]

NoValue == [kind |-> "none"]

NoChain == [start |-> "none", len |-> 0]

\* The caller holds no value and has applied nothing.
OpsIdle ==
    /\ oVal = NoValue
    /\ oLast = NoOp
    /\ oChain = NoChain

GradIdle ==
    /\ tapes = <<>>
    /\ res = NoQuery
    /\ exited = {}

ClassifyIdle ==
    /\ cValues = <<>>
    /\ cPc = "idle"
    /\ cInterfaces = <<>>
    /\ cOutcome = NoOutcome
    /\ cWarnings = 0
    /\ cPrev = NoCall

ClassifyInit ==
    /\ GradIdle
    /\ OpsIdle
    /\ cValues = <<>>
    /\ cPc = "idle"
    /\ cInterfaces = <<>>
    /\ cOutcome = NoOutcome
    /\ cWarnings = 0
    /\ cPrev = NoCall

\* The caller hands over a non-empty sequence.
Call(values) ==
    /\ cPc = "idle"
    /\ cValues' = values
    /\ cPc' = "probing"
    /\ cInterfaces' = <<>>
    /\ cOutcome' = NoOutcome
    /\ cWarnings' = 0
    /\ UNCHANGED cPrev
    /\ UNCHANGED <<gvars, ovars>>

\* interfaces = [get_interface(v) for v in values], one value at a time.
Probe ==
    /\ cPc = "probing"
    /\ Len(cInterfaces) < Len(cValues)
    /\ cInterfaces' = Append(cInterfaces, get_interface(cValues[Len(cInterfaces) + 1]))
    /\ UNCHANGED <<cValues, cPc, cOutcome, cWarnings, cPrev>>
    /\ UNCHANGED <<gvars, ovars>>

\* Conflict check, warning, and the choice of the authoritative backend.
Decide ==
    /\ cPc = "probing"
    /\ Len(cInterfaces) = Len(cValues)
    /\ IF IsConflict(SeqToSet(cInterfaces))
       THEN /\ cOutcome' = MixedTypesError
            /\ UNCHANGED cWarnings
       ELSE /\ cWarnings' = cWarnings + Warns(cInterfaces)
            /\ cOutcome' = Authoritative(cValues, cInterfaces)
    /\ cPc' = "done"
    /\ UNCHANGED <<cValues, cInterfaces, cPrev>>
    /\ UNCHANGED <<gvars, ovars>>

\* The call returns (or raises) and its locals are gone; the caller may call again.
Return ==
    /\ cPc = "done"
    /\ cPrev' = [status |-> "called", kinds |-> SeqToSet(cValues),
                 outcome |-> Visible(cOutcome), warnings |-> cWarnings]
    /\ cPc' = "idle"
    /\ cValues' = <<>>
    /\ cInterfaces' = <<>>
    /\ cOutcome' = NoOutcome
    /\ cWarnings' = 0
    /\ UNCHANGED <<gvars, ovars>>

ClassifyNext ==
    \/ (cPc = "idle" /\ \E values \in ValueSeqs : Call(values))
    \/ Probe
    \/ Decide
    \/ Return

SpecClassify == ClassifyInit /\ [][ClassifyNext]_vars

-----------------------------------------------------------------------------
(* Properties of the classifier.                                           *)

\* The backend identity of a value as the data model has it: tuples, lists
\* and plain arrays are plain-array; both TensorFlow types are backend B.
IdentityOf(kind) ==
    CASE kind \in {"sequence", "numpy"}         -> "numpy"
      [] kind = "autograd"                      -> "autograd"
      [] kind = "torch"                         -> "torch"
      [] kind \in {"tfVariable", "tfConstant"}  -> "tf"

IdentitiesOf(kinds) == {IdentityOf(k) : k \in kinds}

Identities(values) == IdentitiesOf(SeqToSet(values))

\* C1: a sequence holding at least one torch value and at least one tf
\* value is refused with the "mixed types" error and yields no dispatch
\* handle, whatever the order, the counts and the other identities present.
C1_MixedBackendsRaise ==
    (cPc = "done" /\ {"torch", "tf"} \subseteq Identities(cValues))
        => /\ cOutcome = MixedTypesError
           /\ cOutcome.status # "ok"

C1_Witness ==
    /\ cPc = "done"
    /\ Len(cValues) = 3
    /\ Identities(cValues) = {"autograd", "torch", "tf"}
    /\ cValues[1] = "autograd"
    /\ cOutcome = MixedTypesError

\* C2: autograd values together with values of exactly one of torch / tf:
\* the call succeeds, the handle is that backend's, and exactly one warning
\* is emitted by the call however many autograd values there are.
C2_AutogradMixWarnsOnce ==
    \A b \in {"torch", "tf"} :
        (/\ cPc = "done"
         /\ {"autograd", b} \subseteq Identities(cValues)
         /\ ({"torch", "tf"} \ {b}) \cap Identities(cValues) = {})
            => /\ cOutcome.status = "ok"
               /\ cOutcome.interface = b
               /\ cWarnings = 1

C2_Witness ==
    /\ cPc = "done"
    /\ cValues = <<"autograd", "tfVariable", "autograd">>
    /\ cOutcome.status = "ok"
    /\ cOutcome.interface = "tf"
    /\ cWarnings = 1

\* C3: without a conflict, a single identity other than plain-array is the
\* authoritative one and no warning is emitted; plain arrays and raw
\* sequences alone classify as plain-array.
C3_SingleIdentityWins ==
    cPc = "done" =>
        LET ids == Identities(cValues)
        IN  /\ \A x \in {"autograd", "torch", "tf"} :
                   ids \ {"numpy"} = {x}
                       => /\ cOutcome.status = "ok"
                          /\ cOutcome.interface = x
                          /\ cWarnings = 0
            /\ ids = {"numpy"}
                   => /\ cOutcome.status = "ok"
                      /\ cOutcome.interface = "numpy"
                      /\ cWarnings = 0
            /\ cValues = <<"sequence", "autograd">> => cOutcome.interface = "autograd"
            /\ cValues \in {<<"numpy", "tfVariable">>, <<"numpy", "tfConstant">>}
                   => cOutcome.interface = "tf"

C3_Witness ==
    /\ cPc = "done"
    /\ cValues = <<"numpy", "tfVariable">>
    /\ cOutcome.status = "ok"
    /\ cOutcome.interface = "tf"
    /\ cWarnings = 0

\* C4: two calls on sequences with the same set of identities end alike:
\* the same authoritative backend or the same error, and the same warnings.
C4_DependsOnIdentitySetOnly ==
    (/\ cPc = "done"
     /\ cPrev.status = "called"
     /\ IdentitiesOf(cPrev.kinds) = Identities(cValues))
        => /\ Visible(cOutcome) = cPrev.outcome
           /\ cWarnings = cPrev.warnings

C4_Witness ==
    /\ cPc = "done"
    /\ cPrev.status = "called"
    /\ cPrev.kinds = {"tfVariable", "autograd"}
    /\ cValues = <<"autograd", "autograd", "tfConstant">>
    /\ cOutcome.status = "ok"
    /\ cOutcome.interface = "tf"
    /\ cWarnings = 1

-----------------------------------------------------------------------------
(* TensorFlow's gradient recording, as TensorFlowBox.requires_grad sees it.*)
(* A scope is a tf.GradientTape on the thread's tape stack.  A tape        *)
(* watches a tensor after tape.watch, and a variable after tape.watch or,  *)
(* when it was made with watch_accessed_variables=True (the default), after*)
(* the variable is read while the tape is active.  Variables are made with *)
(* the default trainable=True, as in the tests.                            *)

\* Deepest nesting of recording scopes.
MaxTapes == 2

\* t1 = tf.Variable([1.0, 2.0]), t2 = tf.constant([1.0, 2.0]) of
\* TestRequiresGrad.test_tf, and tf.Variable([1, 2, 3]) of test_data.
TFValues ==
    {[kind |-> "tfVariable", dtype |-> "float32"],
     [kind |-> "tfConstant", dtype |-> "float32"],
     [kind |-> "tfVariable", dtype |-> "int32"]}

\* Gradients flow only through floating (and complex) dtypes.
IsDtypeTrainable(dtype) == dtype \in {"float32", "float64"}

\* A fresh tf.GradientTape(watch_accessed_variables=flag).
NewTape(flag) == [watchAccessed |-> flag, watched |-> {}]

\* Is t watched by one of the tapes?
WatchedBy(ts, t) == \E i \in 1..Len(ts) : t \in ts[i].watched

\* TensorFlowBox.astensor: tf.convert_to_tensor(tensor), as the tapes see
\* it.  Converting a variable reads it, and the read is reported to every
\* active tape.
astensor_tapes_watchAlways(ts, t) ==
    IF t.kind = "tfVariable"
    THEN [i \in 1..Len(ts) |-> [ts[i] EXCEPT !.watched = @ \cup {t}]]
    ELSE ts

astensor_tapes(ts, t) ==
    IF t.kind = "tfVariable"
    THEN [i \in 1..Len(ts) |->
             IF ts[i].watchAccessed
             THEN [ts[i] EXCEPT !.watched = @ \cup {t}]
             ELSE ts[i]]
    ELSE ts

\* tape.should_record_backprop([tensor]): some active tape watches the
\* tensor and its dtype is trainable; false when no tape is active.
should_record_backprop(ts, t) ==
    /\ ts # <<>>
    /\ WatchedBy(ts, t)
    /\ IsDtypeTrainable(t.dtype)

\* TensorFlowBox.requires_grad: the value is converted, the converted
\* tensor is handed to should_record_backprop.  Gives the answer and the
\* tape stack the conversion leaves behind.
requires_grad_static(ts, t) ==
    [tapes  |-> ts,
     answer |-> t.kind = "tfVariable" /\ IsDtypeTrainable(t.dtype)]

requires_grad_noConversion(ts, t) ==
    [tapes |-> ts, answer |-> should_record_backprop(ts, t)]

requires_grad(ts, t) ==
    LET converted == astensor_tapes(ts, t)
    IN  [tapes |-> converted, answer |-> should_record_backprop(converted, t)]

\* with tf.GradientTape(watch_accessed_variables=flag):
EnterTape(flag) ==
    /\ Len(tapes) < MaxTapes
    /\ tapes' = Append(tapes, NewTape(flag))
    /\ res' = NoQuery
    /\ UNCHANGED exited
    /\ UNCHANGED <<cvars, ovars>>

\* Leaving the innermost with-block pops its tape.
ExitTape ==
    /\ tapes # <<>>
    /\ tapes' = SubSeq(tapes, 1, Len(tapes) - 1)
    /\ exited' = exited \cup tapes[Len(tapes)].watched
    /\ res' = NoQuery
    /\ UNCHANGED <<cvars, ovars>>

\* tape.watch(t) on one of the active tapes.
Watch(i, t) ==
    /\ i \in 1..Len(tapes)
    /\ tapes' = [tapes EXCEPT ![i].watched = @ \cup {t}]
    /\ res' = NoQuery
    /\ UNCHANGED exited
    /\ UNCHANGED <<cvars, ovars>>

\* fn.requires_grad(t) on a TensorFlow value: the conversion, then the query.
RequiresGrad(t) ==
    /\ tapes' = requires_grad(tapes, t).tapes
    /\ res' = [status |-> "query", t |-> t,
               answer |-> requires_grad(tapes, t).answer,
               watchedBefore |-> WatchedBy(tapes, t)]
    /\ UNCHANGED exited
    /\ UNCHANGED <<cvars, ovars>>

GradInit == ClassifyIdle /\ GradIdle /\ OpsIdle

GradNext ==
    \/ \E flag \in BOOLEAN : EnterTape(flag)
    \/ ExitTape
    \/ \E i \in 1..MaxTapes, t \in TFValues : Watch(i, t)
    \/ \E t \in TFValues : RequiresGrad(t)

SpecGrad == GradInit /\ [][GradNext]_vars

-----------------------------------------------------------------------------
(* Properties of requires_grad on TensorFlow values.                       *)

Queried == res.status = "query"

AutoWatching(ts) == \E i \in 1..Len(ts) : ts[i].watchAccessed

C6_NoScopeNoGrad ==
    (Queried /\ tapes = <<>>) => ~res.answer

C6_Witness ==
    /\ Queried
    /\ tapes = <<>>
    /\ res.t = [kind |-> "tfVariable", dtype |-> "float32"]
    /\ res.t \in exited
    /\ [kind |-> "tfConstant", dtype |-> "float32"] \in exited
    /\ ~res.answer

\* C10 as stated: a query leaves the scopes and the watched state of every
\* tensor unchanged, and two consecutive queries of a value agree.
C10_AsStated ==
    [][res'.status = "query"
          => /\ tapes' = tapes
             /\ (Queried /\ res.t = res'.t) => res'.answer = res.answer]_vars

\* C10, amended: a query leaves the scope stack, every scope's setting and
\* the watched state of every other value unchanged, and never un-watches a
\* value; it does mark the queried value watched when that value is a
\* variable, in exactly the active scopes that watch accessed variables (the
\* conversion reads the variable).  A constant, and a variable in scopes that
\* do not watch accessed variables, is not made watched.  Two consecutive
\* queries of a value agree.
C10_QueryOnlyWatchesQueriedVariable ==
    [][res'.status = "query"
          => /\ Len(tapes') = Len(tapes)
             /\ \A i \in 1..Len(tapes) :
                    /\ tapes'[i].watchAccessed = tapes[i].watchAccessed
                    /\ tapes'[i].watched \ {res'.t} = tapes[i].watched \ {res'.t}
                    /\ tapes[i].watched \subseteq tapes'[i].watched
                    /\ (res'.t \in tapes'[i].watched /\ res'.t \notin tapes[i].watched)
                           <=> /\ res'.t.kind = "tfVariable"
                               /\ tapes[i].watchAccessed
                               /\ res'.t \notin tapes[i].watched
             /\ exited' = exited
             /\ (Queried /\ res.t = res'.t) => res'.answer = res.answer]_vars

C10_Witness ==
    /\ Queried
    /\ Len(tapes) = 2
    /\ ~tapes[1].watchAccessed
    /\ tapes[2].watchAccessed
    /\ res.t = [kind |-> "tfVariable", dtype |-> "float32"]
    /\ ~res.watchedBefore
    /\ res.t \in tapes[2].watched
    /\ res.t \notin tapes[1].watched
    /\ res.answer

-----------------------------------------------------------------------------
(* Tensor-like values with content, and the operations on them.            *)
(* A number is a multiple of the finest step a float64 tells apart; a      *)
(* float32 tells apart every second step, an integer dtype every fourth.   *)
(* So 4 stands for an integer, 2 for a fraction float32 holds exactly, and *)
(* 1 and 3 for fractions only float64 holds exactly.                       *)

\* Largest number in an input value.
MaxElem == 4

\* Length of the one-dimensional input values.
VecLen == 2

\* Most values handed to stack.
MaxStack == 3

IntDTypes == {"int32", "int64", "pyint"}

Grid(dtype) ==
    CASE dtype \in IntDTypes                -> 4
      [] dtype = "float32"                  -> 2
      [] dtype \in {"float64", "pyfloat"}   -> 1

Representable(dtype, x) == x % Grid(dtype) = 0

\* Conversion of one number to a dtype.
ToDtype(dtype, x) == x - (x % Grid(dtype))

Convert(dtype, data) == [i \in 1..Len(data) |-> ToDtype(dtype, data[i])]

\* The dtypes a value of a kind is made with: Python numbers in tuples, lists
\* and scalars, array dtypes elsewhere (cast_like_test_data).
DTypesOf(kind) ==
    CASE kind \in {"sequence", "scalar"} -> {"pyint", "pyfloat"}
      [] kind \in TFKinds                -> {"int32", "int64", "float32", "float64"}
      [] OTHER                           -> {"int64", "float32", "float64"}

DataOf(dtype, n) ==
    {d \in [1..n -> 0..MaxElem] : \A i \in 1..n : Representable(dtype, d[i])}

\* The values a caller may hold: a Python scalar, or a one-dimensional value
\* of any kind.
InputValues ==
    UNION {{[kind |-> "scalar", dtype |-> dt, shape |-> <<>>, data |-> d] :
               d \in DataOf(dt, 1)} : dt \in {"pyint", "pyfloat"}}
    \cup UNION {UNION {{[kind |-> k, dtype |-> dt, shape |-> <<VecLen>>, data |-> d] :
                           d \in DataOf(dt, VecLen)} : dt \in DTypesOf(k)} : k \in Kinds}

\* The values convert_like takes its target from; their content plays no part.
LikeValues ==
    UNION {{[kind |-> k, dtype |-> dt, shape |-> <<VecLen>>,
             data |-> [i \in 1..VecLen |-> 0]] : dt \in DTypesOf(k)} : k \in Kinds}

\* Dtype a backend gives to Python numbers.
NumpyDType(dtype) ==
    CASE dtype = "pyint" -> "int64" [] dtype = "pyfloat" -> "float64" [] OTHER -> dtype

TorchDType(dtype) ==
    CASE dtype = "pyint" -> "int64" [] dtype = "pyfloat" -> "float32" [] OTHER -> dtype

TFDType(dtype) ==
    CASE dtype = "pyint" -> "int32" [] dtype = "pyfloat" -> "float32" [] OTHER -> dtype

\* TensorFlowBox.astensor: tf.convert_to_tensor(tensor).  A tensor, variable
\* or array keeps its dtype; Python numbers become int32 / float32.
astensor_unconverted(tensor) == tensor

astensor(tensor) ==
    [kind  |-> "tfConstant",
     dtype |-> TFDType(tensor.dtype),
     shape |-> tensor.shape,
     data  |-> Convert(TFDType(tensor.dtype), tensor.data)]

\* astensor of the other boxes.
NumpyBox_astensor(tensor) ==
    [kind  |-> "numpy",
     dtype |-> NumpyDType(tensor.dtype),
     shape |-> tensor.shape,
     data  |-> Convert(NumpyDType(tensor.dtype), tensor.data)]

AutogradBox_astensor(tensor) ==
    [kind  |-> "autograd",
     dtype |-> NumpyDType(tensor.dtype),
     shape |-> tensor.shape,
     data  |-> Convert(NumpyDType(tensor.dtype), tensor.data)]

TorchBox_astensor(tensor) ==
    [kind  |-> "torch",
     dtype |-> TorchDType(tensor.dtype),
     shape |-> tensor.shape,
     data  |-> Convert(TorchDType(tensor.dtype), tensor.data)]

\* fn.convert_like(tensor1, tensor2) = TensorBox(tensor2).astensor(tensor1)
convert_like(tensor1, tensor2) ==
    CASE get_interface(tensor2.kind) = "tf"       -> astensor(tensor1)
      [] get_interface(tensor2.kind) = "torch"    -> TorchBox_astensor(tensor1)
      [] get_interface(tensor2.kind) = "autograd" -> AutogradBox_astensor(tensor1)
      [] get_interface(tensor2.kind) = "numpy"    -> NumpyBox_astensor(tensor1)

\* What a box's operations return for a value of a kind: a raw sequence is
\* boxed as a plain array, a tf.Variable comes back as a tf.Tensor.
ResultKind(kind) ==
    CASE kind \in {"sequence", "scalar"} -> "numpy"
      [] kind \in TFKinds                -> "tfConstant"
      [] OTHER                           -> kind

CastDTypes == {"int64", "float32", "float64"}

\* fn.cast(tensor, dtype)
cast_sequenceNotCast(tensor, dtype) ==
    IF tensor.kind \in {"sequence", "scalar"}
    THEN NumpyBox_astensor(tensor)
    ELSE [kind  |-> ResultKind(tensor.kind),
          dtype |-> dtype,
          shape |-> tensor.shape,
          data  |-> Convert(dtype, tensor.data)]

cast(tensor, dtype) ==
    [kind  |-> ResultKind(tensor.kind),
     dtype |-> dtype,
     shape |-> tensor.shape,
     data  |-> Convert(dtype, tensor.data)]

\* The values handed to stack: the i-th of them, of a kind and dtype, holds
\* the numbers i, i+1, ... in steps of its dtype, so that every row differs
\* from every other and from its own rounding to a coarser dtype.
StackValue(i, kind, dtype) ==
    [kind  |-> kind,
     dtype |-> dtype,
     shape |-> <<VecLen>>,
     data  |-> [j \in 1..VecLen |-> (i + j - 1) * Grid(dtype)]]

StackMetas == UNION {{<<k, dt>> : dt \in DTypesOf(k)} : k \in Kinds}

\* The list stack is handed for a choice of kinds and dtypes.
StackList(metas) == [i \in 1..Len(metas) |-> StackValue(i, metas[i][1], metas[i][2])]

BackendError == [status |-> "error", type |-> "backend"]

\* The rows laid out along the new axis: axis 0 keeps each input as a row,
\* axis 1 makes the i-th input the i-th column.
Pack(rows, axis) ==
    IF axis = 0
    THEN rows
    ELSE [j \in 1..VecLen |-> [i \in 1..Len(rows) |-> rows[i][j]]]

PackedShape(n, axis) == IF axis = 0 THEN <<n, VecLen>> ELSE <<VecLen, n>>

\* TensorFlowBox.stack: tf.stack(unbox_list(values), axis=axis).  The result
\* has the dtype of the first tensor or variable; the other tensors and
\* variables must have it too, arrays and Python numbers are converted to it
\* (floating-point numbers cannot become integers).
TensorFlowBox_stack_axis0(values, axis) ==
    LET tfs   == {i \in 1..Len(values) : values[i].kind \in TFKinds}
        first == CHOOSE i \in tfs : \A j \in tfs : i <= j
        dtype == values[first].dtype
    IN  IF \/ \E i \in tfs : values[i].dtype # dtype
           \/ \E i \in 1..Len(values) \ tfs :
                  values[i].dtype \notin IntDTypes /\ dtype \in IntDTypes
        THEN BackendError
        ELSE [status |-> "ok",
              kind   |-> "tfConstant",
              dtype  |-> dtype,
              shape  |-> PackedShape(Len(values), 0),
              data   |-> [i \in 1..Len(values) |-> Convert(dtype, values[i].data)]]

TensorFlowBox_stack(values, axis) ==
    LET tfs   == {i \in 1..Len(values) : values[i].kind \in TFKinds}
        first == CHOOSE i \in tfs : \A j \in tfs : i <= j
        dtype == values[first].dtype
    IN  IF \/ \E i \in tfs : values[i].dtype # dtype
           \/ \E i \in 1..Len(values) \ tfs :
                  values[i].dtype \notin IntDTypes /\ dtype \in IntDTypes
        THEN BackendError
        ELSE [status |-> "ok",
              kind   |-> "tfConstant",
              dtype  |-> dtype,
              shape  |-> PackedShape(Len(values), axis),
              data   |-> Pack([i \in 1..Len(values) |-> Convert(dtype, values[i].data)],
                              axis)]

\* Dtype the array libraries promote a list of dtypes to.
Promote(dtypes) ==
    IF dtypes \subseteq IntDTypes
    THEN (IF "int64" \in dtypes THEN "int64" ELSE "int32")
    ELSE IF dtypes = {"float32"} THEN "float32" ELSE "float64"

\* stack of the other boxes: the backend's native stacking primitive.
NativeStack(kind, values, axis) ==
    LET dtype == Promote({NumpyDType(values[i].dtype) : i \in 1..Len(values)})
    IN  [status |-> "ok",
         kind   |-> kind,
         dtype  |-> dtype,
         shape  |-> PackedShape(Len(values), axis),
         data   |-> Pack([i \in 1..Len(values) |-> Convert(dtype, values[i].data)], axis)]

\* fn.stack(values, axis) = _get_multi_tensorbox(values).stack(values, axis)
stack(values, axis) ==
    LET kinds      == [i \in 1..Len(values) |-> values[i].kind]
        interfaces == [i \in 1..Len(values) |-> get_interface(kinds[i])]
    IN  IF IsConflict(SeqToSet(interfaces))
        THEN MixedTypesError
        ELSE LET box == Authoritative(kinds, interfaces).interface
             IN  IF box = "tf"
                 THEN TensorFlowBox_stack(values, axis)
                 ELSE NativeStack(box, values, axis)

-----------------------------------------------------------------------------
(* expand_dims, ones_like and T.  A value's numbers are kept in row-major  *)
(* order next to its shape.                                                *)

\* Most dimensions of a value the caller holds.
MaxRank == 2

\* Most operations counted on one value.
MaxChain == 3

\* The number one, in every dtype.
One == Grid("int64")

Reverse(seq) == [i \in 1..Len(seq) |-> seq[Len(seq) + 1 - i]]

Front(seq) == SubSeq(seq, 1, Len(seq) - 1)

\* Position (from 0) of a multi-index in the row-major order of a shape.
RECURSIVE FlatIndex(_, _)
FlatIndex(index, shape) ==
    IF Len(shape) = 0
    THEN 0
    ELSE FlatIndex(Front(index), Front(shape)) * shape[Len(shape)] + index[Len(index)]

\* The multi-index at a position (from 0) of the row-major order of a shape.
RECURSIVE MultiIndex(_, _)
MultiIndex(k, shape) ==
    IF Len(shape) = 0
    THEN <<>>
    ELSE Append(MultiIndex(k \div shape[Len(shape)], Front(shape)), k % shape[Len(shape)])

\* tf.transpose without perm: the order of all axes is reversed.
Transposed(shape, data) ==
    [k \in 1..Len(data) |->
        data[FlatIndex(Reverse(MultiIndex(k - 1, Reverse(shape))), shape) + 1]]

\* tf.expand_dims: a dimension of size one is inserted at the axis.
Expanded(shape, axis) == SubSeq(shape, 1, axis) \o <<1>> \o SubSeq(shape, axis + 1, Len(shape))

\* The constructor TensorFlowBox(res) on the result of a TensorFlow
\* function: the box holds that one TensorFlow tensor.
TensorFlowBox(dtype, shape, data) ==
    [kind |-> "tfConstant", dtype |-> dtype, shape |-> shape, data |-> data]

\* TensorFlowBox.expand_dims: TensorFlowBox(tf.expand_dims(self.unbox(), axis=axis))
TensorFlowBox_expand_dims(self, axis) ==
    TensorFlowBox(self.dtype, Expanded(self.shape, axis), self.data)

\* TensorFlowBox.ones_like: TensorFlowBox(tf.ones_like(self.unbox()))
TensorFlowBox_ones_like(self) ==
    TensorFlowBox(self.dtype, self.shape, [i \in 1..Len(self.data) |-> One])

\* TensorFlowBox.T: TensorFlowBox(tf.transpose(self.unbox()))
TensorFlowBox_T_asArray(self) ==
    [kind  |-> "numpy",
     dtype |-> self.dtype,
     shape |-> Reverse(self.shape),
     data  |-> Transposed(self.shape, self.data)]

TensorFlowBox_T(self) ==
    TensorFlowBox(self.dtype, Reverse(self.shape), Transposed(self.shape, self.data))

\* The same operations of the other boxes: the result is of the box's own
\* backend, a raw sequence having been made a plain array.
NativeValue(tensor, shape, data) ==
    [kind  |-> ResultKind(tensor.kind),
     dtype |-> NumpyDType(tensor.dtype),
     shape |-> shape,
     data  |-> Convert(NumpyDType(tensor.dtype), data)]

\* fn.expand_dims(tensor, axis)
expand_dims(tensor, axis) ==
    IF get_interface(tensor.kind) = "tf"
    THEN TensorFlowBox_expand_dims(tensor, axis)
    ELSE NativeValue(tensor, Expanded(tensor.shape, axis), tensor.data)

\* fn.ones_like(tensor)
ones_like(tensor) ==
    IF get_interface(tensor.kind) = "tf"
    THEN TensorFlowBox_ones_like(tensor)
    ELSE NativeValue(tensor, tensor.shape, [i \in 1..Len(tensor.data) |-> One])

\* fn.T(tensor)
T(tensor) ==
    IF get_interface(tensor.kind) = "tf"
    THEN TensorFlowBox_T(tensor)
    ELSE NativeValue(tensor, Reverse(tensor.shape), Transposed(tensor.shape, tensor.data))

\* The rows of a stacked tensor in row-major order.
RowMajor(rows) ==
    [k \in 1..(Len(rows) * Len(rows[1])) |->
        rows[((k - 1) \div Len(rows[1])) + 1][((k - 1) % Len(rows[1])) + 1]]

\* One more operation on the held value.
Longer(chain) ==
    [start |-> chain.start,
     len   |-> IF chain.len < MaxChain THEN chain.len + 1 ELSE MaxChain]

-----------------------------------------------------------------------------
(* A caller applying the operations.                                       *)

\* The caller gets hold of a value.
Take(t) ==
    /\ OpsIdle
    /\ oVal' = t
    /\ oLast' = NoOp
    /\ oChain' = [start |-> t.kind, len |-> 0]
    /\ UNCHANGED <<cvars, gvars>>

\* oVal = fn.cast(oVal, dtype)
Cast(dtype) ==
    LET again == oLast.op = "cast" /\ oLast.dtype = dtype
    IN  /\ oVal # NoValue
        /\ oVal' = cast(oVal, dtype)
        /\ oLast' = [op |-> "cast", dtype |-> dtype, before |-> oVal, again |-> again,
                     origin |-> IF again THEN oLast.before ELSE oVal]
        /\ oChain' = Longer(oChain)
        /\ UNCHANGED <<cvars, gvars>>

\* oVal = fn.convert_like(oVal, like): the value starts anew in like's backend.
ConvertLike(like) ==
    /\ oVal # NoValue
    /\ oVal' = convert_like(oVal, like)
    /\ oLast' = [op |-> "convert_like", before |-> oVal, like |-> like]
    /\ oChain' = [start |-> oVal'.kind, len |-> 0]
    /\ UNCHANGED <<cvars, gvars>>

\* fn.stack(values, axis) on a list of values.
Stack(values, axis) ==
    /\ OpsIdle
    /\ oLast' = [op |-> "stack", values |-> values, axis |-> axis,
                 out |-> stack(values, axis)]
    /\ UNCHANGED <<oVal, oChain>>
    /\ UNCHANGED <<cvars, gvars>>

\* oVal = fn.stack([oVal, other], axis), other being oVal itself or a plain
\* array of its numbers; a backend error leaves the caller with what it held.
StackHeld(asArray, axis) ==
    LET other  == IF asArray THEN NumpyBox_astensor(oVal) ELSE oVal
        values == <<oVal, other>>
        out    == stack(values, axis)
    IN  /\ oVal # NoValue
        /\ oVal.shape = <<VecLen>>
        /\ oLast' = [op |-> "stack", values |-> values, axis |-> axis, out |-> out]
        /\ IF out.status = "ok"
           THEN /\ oVal' = [kind |-> out.kind, dtype |-> out.dtype,
                            shape |-> out.shape, data |-> RowMajor(out.data)]
                /\ oChain' = Longer(oChain)
           ELSE UNCHANGED <<oVal, oChain>>
        /\ UNCHANGED <<cvars, gvars>>

\* oVal = fn.expand_dims(oVal, axis); a Python scalar has no dimensions to
\* expand (test_expand_dims_sequence).
ExpandDims(axis) ==
    /\ oVal # NoValue
    /\ oVal.kind # "scalar"
    /\ Len(oVal.shape) < MaxRank
    /\ axis <= Len(oVal.shape)
    /\ oVal' = expand_dims(oVal, axis)
    /\ oLast' = [op |-> "expand_dims", before |-> oVal, axis |-> axis]
    /\ oChain' = Longer(oChain)
    /\ UNCHANGED <<cvars, gvars>>

\* oVal = fn.ones_like(oVal), of a sequence, array or tensor
\* (cast_like_test_data).
OnesLike ==
    /\ oVal # NoValue
    /\ oVal.kind # "scalar"
    /\ oVal' = ones_like(oVal)
    /\ oLast' = [op |-> "ones_like", before |-> oVal]
    /\ oChain' = Longer(oChain)
    /\ UNCHANGED <<cvars, gvars>>

\* oVal = fn.T(oVal), of a sequence, array or tensor (test_data).
Transpose ==
    /\ oVal # NoValue
    /\ oVal.kind # "scalar"
    /\ oVal' = T(oVal)
    /\ oLast' = [op |-> "T", before |-> oVal]
    /\ oChain' = Longer(oChain)
    /\ UNCHANGED <<cvars, gvars>>

\* The caller lets go of what it holds.
Drop ==
    /\ ~OpsIdle
    /\ oVal' = NoValue
    /\ oLast' = NoOp
    /\ oChain' = NoChain
    /\ UNCHANGED <<cvars, gvars>>

OpsInit == ClassifyIdle /\ GradIdle /\ OpsIdle

OpsNext ==
    \/ (OpsIdle /\ \E t \in InputValues : Take(t))
    \/ \E dtype \in CastDTypes : Cast(dtype)
    \/ \E like \in LikeValues : ConvertLike(like)
    \/ (OpsIdle /\ \E n \in 1..MaxStack : \E metas \in [1..n -> StackMetas] :
                       \E axis \in {0, 1} : Stack(StackList(metas), axis))
    \/ \E asArray \in BOOLEAN : \E axis \in {0, 1} : StackHeld(asArray, axis)
    \/ \E axis \in 0..(MaxRank - 1) : ExpandDims(axis)
    \/ OnesLike
    \/ Transpose
    \/ Drop

SpecOps == OpsInit /\ [][OpsNext]_vars

-----------------------------------------------------------------------------
(* Properties of stack, convert_like and cast.                             *)

\* The authoritative identity of a set of identities (precedence of 4.1).
AuthIdentity(ids) ==
    IF "tf" \in ids THEN "tf"
    ELSE IF "torch" \in ids THEN "torch"
    ELSE IF "autograd" \in ids THEN "autograd"
    ELSE "numpy"

StackIdentities(values) == {IdentityOf(values[i].kind) : i \in 1..Len(values)}

NoStackConflict(values) == ~({"torch", "tf"} \subseteq StackIdentities(values))

\* The i-th input as found again in a stacked tensor: the i-th row for
\* axis 0, the i-th slice along axis 1 for axis 1.
Recovered(out, axis, i) ==
    IF axis = 0 THEN out.data[i] ELSE [j \in 1..Len(out.data) |-> out.data[j][i]]

ShapeAsStacked(out, n, axis) ==
    /\ out.shape = (IF axis = 0 THEN <<n, VecLen>> ELSE <<VecLen, n>>)
    /\ Len(out.data) = out.shape[1]
    /\ \A j \in 1..Len(out.data) : Len(out.data[j]) = out.shape[2]

SameArrayDType(values) ==
    /\ values[1].dtype \notin {"pyint", "pyfloat"}
    /\ \A i \in 1..Len(values) : values[i].dtype = values[1].dtype

ResultIdentity(kind) == IF kind \in Kinds THEN IdentityOf(kind) ELSE "none"

\* C8 as stated: convert_like(t1, t2) has the identity of t2 and the
\* numbers and shape of t1; a Python scalar becomes zero-dimensional.
C8_AsStated ==
    oLast.op = "convert_like"
        => /\ ResultIdentity(oVal.kind) = IdentityOf(oLast.like.kind)
           /\ oVal.shape = oLast.before.shape
           /\ oVal.data = oLast.before.data
           /\ oLast.before.kind = "scalar" => oVal.shape = <<>>

\* C8, amended: convert_like(t1, t2) has the identity of t2 and the shape
\* of t1, a Python scalar becoming zero-dimensional; its numbers are those
\* of t1 converted to the result's dtype.  They equal t1's exactly when t1 is
\* an array or tensor (its dtype is kept), holds Python integers, is
\* converted to a plain or autograd array, or holds numbers float32
\* represents; Python floats converted to TensorFlow or torch become float32.
C8_ConvertLikeUpToPrecision ==
    oLast.op = "convert_like"
        => LET t1 == oLast.before
               raw == t1.kind \in {"sequence", "scalar"}
           IN  /\ ResultIdentity(oVal.kind) = IdentityOf(oLast.like.kind)
               /\ oVal.shape = t1.shape
               /\ t1.kind = "scalar" => oVal.shape = <<>>
               /\ oVal.data = Convert(oVal.dtype, t1.data)
               /\ ~raw => (oVal.dtype = t1.dtype /\ oVal.data = t1.data)
               /\ (raw /\ t1.dtype = "pyfloat"
                       /\ IdentityOf(oLast.like.kind) \in {"tf", "torch"})
                      => oVal.dtype = "float32"
               /\ (t1.dtype = "pyint"
                       \/ IdentityOf(oLast.like.kind) \in {"numpy", "autograd"}
                       \/ \A i \in 1..Len(t1.data) : Representable("float32", t1.data[i]))
                      => oVal.data = t1.data

C8_Witness ==
    /\ oLast.op = "convert_like"
    /\ oLast.before.kind = "sequence"
    /\ oLast.before.dtype = "pyfloat"
    /\ oLast.before.data = <<1, 4>>
    /\ oLast.like.kind = "tfVariable"
    /\ oVal.kind = "tfConstant"
    /\ oVal.dtype = "float32"
    /\ oVal.data = <<0, 4>>

\* C9: cast is idempotent: a second cast to the same dtype changes neither
\* the dtype, nor the identity, nor the numbers; every cast to a dtype,
\* also of a value that already has it, returns a value of that dtype.
C9_CastIdempotent ==
    oLast.op = "cast"
        => /\ oVal.dtype = oLast.dtype
           /\ oLast.before.dtype = oLast.dtype => oVal.data = oLast.before.data
           /\ oLast.again
                  => /\ oVal.dtype = oLast.before.dtype
                     /\ ResultIdentity(oVal.kind) = ResultIdentity(oLast.before.kind)
                     /\ oVal.data = oLast.before.data
                     /\ oVal = oLast.before

C9_Witness ==
    /\ oLast.op = "cast"
    /\ oLast.again
    /\ oLast.dtype = "float32"
    /\ oLast.origin.kind = "tfVariable"
    /\ oLast.origin.dtype = "float64"
    /\ oLast.origin.data = <<3, 1>>
    /\ oLast.before = [kind |-> "tfConstant", dtype |-> "float32",
                       shape |-> <<VecLen>>, data |-> <<2, 0>>]
    /\ oVal = oLast.before

-----------------------------------------------------------------------------
(* Backend identity under the single-tensor operations.                    *)

SingleTensorOps == {"cast", "ones_like", "T", "expand_dims"}

RECURSIVE Size(_)
Size(shape) == IF Len(shape) = 0 THEN 1 ELSE shape[1] * Size(Tail(shape))

\* A box holds exactly one TensorFlow value: a tensor or variable with a
\* TensorFlow dtype and as many numbers as its shape has places.
OneTensorFlowValue(value) ==
    /\ value.kind \in TFKinds
    /\ value.dtype \in DTypesOf(value.kind)
    /\ Len(value.data) = Size(value.shape)

\* C11: cast, ones_like, T and expand_dims return a value of the interface
\* of their argument, a raw sequence counting as a plain array; stack,
\* expand_dims, ones_like and T of TensorFlowBox return a box holding exactly
\* one TensorFlow value, of interface "tf"; so whatever these operations did
\* to a value since it was taken or converted, its interface is still the
\* one it started with, "tf" for a TensorFlow variable or tensor.
C11_IdentityPreserved ==
    /\ (oLast.op \in SingleTensorOps /\ oLast.before.kind \in Kinds)
           => /\ oVal.kind \in Kinds
              /\ get_interface(oVal.kind) = IdentityOf(oLast.before.kind)
    /\ (oLast.op \in {"ones_like", "T", "expand_dims"} /\ oLast.before.kind \in TFKinds)
           => /\ OneTensorFlowValue(oVal)
              /\ TensorFlowBox_interface(oVal.kind) = "tf"
    /\ (oLast.op = "stack" /\ oLast.out.status = "ok"
            /\ \E i \in 1..Len(oLast.values) : oLast.values[i].kind \in TFKinds)
           => /\ oLast.out.kind \in TFKinds
              /\ oLast.out.dtype \in DTypesOf(oLast.out.kind)
              /\ TensorFlowBox_interface(oLast.out.kind) = "tf"
    /\ oChain.start \in Kinds
           => /\ oVal.kind \in Kinds
              /\ get_interface(oVal.kind) = IdentityOf(oChain.start)
    /\ oChain.start \in TFKinds
           => /\ OneTensorFlowValue(oVal)
              /\ TensorFlowBox_interface(oVal.kind) = "tf"

C11_Witness ==
    /\ oChain.start = "tfVariable"
    /\ oChain.len >= 3
    /\ oLast.op = "T"
    /\ Len(oLast.before.shape) = 2
    /\ oVal.data # oLast.before.data
    /\ oVal.kind = "tfConstant"
    /\ oVal.dtype = "float64"
    /\ get_interface(oVal.kind) = "tf"

====
